---- MODULE Spec2Model ----
(***************************************************************************)
(* A model of the DiffMem memory store of Hive-Code                        *)
(* (src/core/memory/diffmem_integration.py): the live index `memories`,    *)
(* the Git ledger behind it, retrieval, consolidation, and the executor    *)
(* and lock that run embedding generation and ledger commits.              *)
(*                                                                         *)
(* Numbers.  Importance is a float in the code; here it is fixed point,    *)
(* in thousandths (5.0 is 5000).  Time is time.time(), a float of seconds; *)
(* here it is an integer count of half milliseconds, so that two           *)
(* timestamps can differ and still fall in the same integer millisecond.   *)
(* The clock is the environment's and never runs backwards.                *)
(***************************************************************************)
EXTENDS Integers, Sequences, FiniteSets, TLC

(***************************************************************************)
(* Bounds of the model.                                                    *)
(***************************************************************************)
\* add_memory calls made in one behaviour.
MaxAdds == 2
\* Steps of three days the clock may take.
MaxPeriods == 1
\* Steps of half a millisecond the clock may take.
MaxFine == 2
\* Highest access_count a live entry reaches.
MaxAccess == 1
\* consolidate_memories calls made in one behaviour.
MaxCycles == 2
\* add_memory coroutines running concurrently on the event loop.
MaxCalls == 2
\* start_background_tasks calls made in one behaviour.
MaxTasks == 2
\* process_message calls made in one behaviour.
MaxMessages == 3
\* add_to_blockchain calls made in one behaviour.
MaxChain == 3
\* check_rate_limit coroutines running concurrently on the event loop.
MaxChecks == 2

(***************************************************************************)
(* Program constants.                                                      *)
(***************************************************************************)
\* MEMORY_IMPORTANCE_THRESHOLD = 0.1, in thousandths.
MEMORY_IMPORTANCE_THRESHOLD == 100
\* MEMORY_DECAY_HALF_LIFE_DAYS = 30.
MEMORY_DECAY_HALF_LIFE_DAYS == 30
\* The upper clamp of add_memory, 10.0, in thousandths.
MaxImportance == 10000
\* The lower clamp of add_memory, 0.0.
MinImportance == 0
\* The divisor of age_days: seconds in a day.
SecondsPerDay == 86400
\* len(memory.content) > 1024 is compressed.
CompressionThreshold == 1024
\* ThreadPoolExecutor(max_workers=2).
MaxWorkers == 2
MAX_MESSAGE_QUEUE_SIZE == 1000
\* Clock units in a second: the clock counts half milliseconds.
UnitsPerSecond == 2000
\* Clock units in the millisecond of int(memory.timestamp * 1000).
UnitsPerMs == UnitsPerSecond \div 1000
\* The long step of the clock: three days, in clock units.
PeriodUnits == 3 * SecondsPerDay * UnitsPerSecond

None == "None"

(***************************************************************************)
(* Inputs.                                                                 *)
(***************************************************************************)
\* Contents and queries.  "long" stands for a text of 2000 characters.
Contents == {"python", "long"}
\* Requested importances: below the range, at the pruning threshold, just
\* above it (below it after three days), in range, above the range.
Importances == {-500, 100, 110, 5000, 12000}
SaveOutcomes == {"ok", "write_failed", "commit_failed"}
\* Query texts: one the degraded store holds, and two others.
Queries == {"pizza", "python", "long"}
\* Requested top_k: negative, zero, one, two.
TopKs == {-1, 0, 1, 2}
\* Requested min_importance: the default and a mid-range threshold.
MinImportances == {0, 5000}
\* Importances of the entries retrieval ranks: one that consolidation prunes
\* and one at the mid-range threshold.
RankedImportances == {100, 5000}

\* Contents around the compression threshold: "edge" stands for a text of
\* 1024 characters and "over" for one of 1025.
CodecContents == {"python", "edge", "over", "long"}

ContentLen(c) ==
    CASE c = "long" -> 2000
      [] c = "edge" -> 1024
      [] c = "over" -> 1025
      [] OTHER -> 12

(***************************************************************************)
(* Arithmetic helpers.                                                     *)
(***************************************************************************)
Min(a, b) == IF a < b THEN a ELSE b
Max(a, b) == IF a > b THEN a ELSE b

\* Python's builtin max(a, b): b when b > a, else a.
PyMax(a, b) == IF b > a THEN b ELSE a
\* Python's builtin min(a, b): b when b < a, else a.
PyMin(a, b) == IF b < a THEN b ELSE a

ISqrt(n) == CHOOSE r \in 0..(n + 1) : r * r <= n /\ (r + 1) * (r + 1) > n

\* 1000 * exp(-k / 10), rounded, for k = 0 .. 12.
ExpTable == <<1000, 905, 819, 741, 670, 607, 549, 497, 449, 407, 368, 333, 301>>

RECURSIVE ExpNegTenths(_)
ExpNegTenths(k) ==
    IF k < Len(ExpTable) THEN ExpTable[k + 1]
    ELSE (ExpNegTenths(k - 1) * ExpTable[2]) \div 1000

\* 1000 * ln(1 + k), rounded, for k = 0 .. 10.
LogTable == <<0, 693, 1099, 1386, 1609, 1792, 1946, 2079, 2197, 2303, 2398>>

\* np.log1p(importance) in thousandths, importance in thousandths: the table
\* at whole importances, linear in between.
Log1p(imp) ==
    LET k == imp \div 1000
        r == imp % 1000
    IN  IF k >= Len(LogTable) - 1 THEN LogTable[Len(LogTable)]
        ELSE LogTable[k + 1] + ((LogTable[k + 2] - LogTable[k + 1]) * r) \div 1000

(***************************************************************************)
(* MemoryEntry and the embedding provider.                                 *)
(***************************************************************************)
\* hashlib.sha256(text).digest() as a vector: 32 components, none negative.
\* Two components stand for the 32; every vector has length 5 before it is
\* normalised.
HashVec(text) ==
    CASE text = "python" -> <<4, 3>>
      [] text = "pizza" -> <<0, 5>>
      [] OTHER -> <<3, 4>>

\* SentenceTransformer.encode(text): 384 components of either sign.
ModelVec(text) ==
    CASE text = "python" -> <<3, 4>>
      [] text = "pizza" -> <<-4, 3>>
      [] OTHER -> <<5, 0>>

GenerateEmbeddingMutant(model, encodeRaises, text) ==
    IF model
    THEN (IF encodeRaises THEN [dim |-> 0, vec |-> <<1, 0>>]
          ELSE [dim |-> 384, vec |-> ModelVec(text)])
    ELSE [dim |-> 32, vec |-> HashVec(text)]
\* _generate_embedding: the model's vector when a model is loaded and encode
\* does not raise, else the hash-derived vector.
GenerateEmbedding(model, encodeRaises, text) ==
    IF model /\ ~encodeRaises
    THEN [dim |-> 384, vec |-> ModelVec(text)]
    ELSE [dim |-> 32, vec |-> HashVec(text)]

Dot(u, v) == u[1] * v[1] + u[2] * v[2]

\* sklearn's cosine_similarity of two vectors, in thousandths.
CosineSimilarity(u, v) == (Dot(u, v) * 1000) \div (ISqrt(Dot(u, u)) * ISqrt(Dot(v, v)))

ClampMutant(importance) == PyMin(importance, MaxImportance)
ClampSwapped(importance) == PyMax(PyMin(importance, MinImportance), MaxImportance)
\* min(max(importance, 0.0), 10.0)
Clamp(importance) == PyMin(PyMax(importance, MinImportance), MaxImportance)

\* MemoryEntry(content=..., importance=..., embedding=..., source=...), with
\* timestamp and last_accessed from time.time().  id is the object's identity.
NewEntry(id, content, importance, embedding, source, now) ==
    [id |-> id,
     content |-> content,
     timestamp |-> now,
     importance |-> Clamp(importance),
     access_count |-> 0,
     last_accessed |-> now,
     embedding |-> embedding,
     source |-> source,
     compressed |-> FALSE]

\* MemoryEntry.to_dict: asdict copies the fields.
ToDict(m) ==
    [content |-> m.content,
     timestamp |-> m.timestamp,
     importance |-> m.importance,
     access_count |-> m.access_count,
     last_accessed |-> m.last_accessed,
     embedding |-> m.embedding,
     source |-> m.source,
     compressed |-> m.compressed]

(***************************************************************************)
(* The codec and the ledger (the Git repository under git_storage).        *)
(***************************************************************************)
\* zlib.compress(content.encode('utf-8'), level=9): bytes, never the text.
CompressContent(content) ==
    CASE content = "python" -> "zlib:python"
      [] content = "pizza" -> "zlib:pizza"
      [] content = "edge" -> "zlib:edge"
      [] content = "over" -> "zlib:over"
      [] OTHER -> "zlib:long"
\* zlib.decompress(compressed).decode('utf-8')
DecompressContent(compressed) ==
    CASE compressed = "zlib:python" -> "python"
      [] compressed = "zlib:pizza" -> "pizza"
      [] compressed = "zlib:edge" -> "edge"
      [] compressed = "zlib:over" -> "over"
      [] OTHER -> "long"
\* bytes.hex()
Hex(bytes) ==
    CASE bytes = "zlib:python" -> "hex:zlib:python"
      [] bytes = "zlib:pizza" -> "hex:zlib:pizza"
      [] bytes = "zlib:edge" -> "hex:zlib:edge"
      [] bytes = "zlib:over" -> "hex:zlib:over"
      [] OTHER -> "hex:zlib:long"

\* f"memory_{int(memory.timestamp * 1000)}.json": the timestamp's whole
\* milliseconds.
FileName(timestamp) == timestamp \div UnitsPerMs

RecordDataMutant(compression, m) ==
    IF compression /\ ContentLen(m.content) >= CompressionThreshold
    THEN [ToDict(m) EXCEPT !.content = Hex(CompressContent(m.content)),
                           !.compressed = TRUE]
    ELSE ToDict(m)

\* The data _save_to_git_sync writes: the entry's dict, its content replaced
\* by the hex of its compressed form when compression applies.
RecordData(compression, m) ==
    IF compression /\ ContentLen(m.content) > CompressionThreshold
    THEN [ToDict(m) EXCEPT !.content = Hex(CompressContent(m.content)),
                           !.compressed = TRUE]
    ELSE ToDict(m)

\* open(filepath, 'w') and json.dump: the file of that name now holds data,
\* whatever it held before.
WriteFile(fs, name, data) ==
    [n \in (DOMAIN fs) \cup {name} |-> IF n = name THEN data ELSE fs[n]]

GitCommitMutant(history, name, data, m) ==
    IF \E i \in 1..Len(history) : history[i].file = name
    THEN history
    ELSE Append(history, [message |-> <<m.source, m.timestamp>>,
                          file |-> name, data |-> data])
\* repo.index.add([filepath]); repo.index.commit(message): one more commit,
\* also when the tree did not change.
GitCommit(history, name, data, m) ==
    Append(history, [message |-> <<m.source, m.timestamp>>,
                     file |-> name, data |-> data])

SwallowsMutant(outcome) == outcome = "ok"
\* except Exception as e: logger.error(...): no outcome of the write or the
\* commit leaves _save_to_git_sync as an exception.
Swallows(outcome) == TRUE

\* _save_to_git_sync as a whole, on the ledger [files, commits]: outcome says
\* whether the write or the commit raised.
SaveToGitSync(ledger, compression, m, outcome) ==
    LET name == FileName(m.timestamp)
        data == RecordData(compression, m)
    IN  CASE outcome = "write_failed" -> ledger
          [] outcome = "commit_failed" ->
                [ledger EXCEPT !.files = WriteFile(ledger.files, name, data)]
          [] OTHER ->
                [files |-> WriteFile(ledger.files, name, data),
                 commits |-> GitCommit(ledger.commits, name, data, m)]

(***************************************************************************)
(* Retrieval.                                                              *)
(***************************************************************************)
\* np.array(...) of the stored embeddings and cosine_similarity against the
\* query raise when the lengths differ.
SimilarityRaises(mems, qe) ==
    \E i \in 1..Len(mems) : mems[i].embedding.dim # qe.dim

ScoreMutant(qe, m) == CosineSimilarity(qe.vec, m.embedding.vec) * 1000
\* similarities[i] * (1 + np.log1p(memory.importance)), in millionths.
Score(qe, m) ==
    CosineSimilarity(qe.vec, m.embedding.vec) * (1000 + Log1p(m.importance))

PassesFilterMutant(m, min_importance) == TRUE
\* if memory.importance >= min_importance
PassesFilter(m, min_importance) == m.importance >= min_importance

\* scored_memories, as the indices into memories in the order of the loop.
RECURSIVE ScoredMemories(_, _, _)
ScoredMemories(mems, min_importance, i) ==
    IF i > Len(mems) THEN <<>>
    ELSE (IF PassesFilter(mems[i], min_importance) THEN <<i>> ELSE <<>>)
         \o ScoredMemories(mems, min_importance, i + 1)

RECURSIVE InsertByScoreMutant(_, _, _, _)
InsertByScoreMutant(sorted, i, mems, qe) ==
    IF sorted = <<>> THEN <<i>>
    ELSE IF Score(qe, mems[Head(sorted)]) > Score(qe, mems[i])
         THEN <<Head(sorted)>> \o InsertByScoreMutant(Tail(sorted), i, mems, qe)
         ELSE <<i>> \o sorted
\* list.sort(reverse=True, key=score) is stable: an element goes behind every
\* element whose score is at least its own.
RECURSIVE InsertByScore(_, _, _, _)
InsertByScore(sorted, i, mems, qe) ==
    IF sorted = <<>> THEN <<i>>
    ELSE IF Score(qe, mems[Head(sorted)]) >= Score(qe, mems[i])
         THEN <<Head(sorted)>> \o InsertByScore(Tail(sorted), i, mems, qe)
         ELSE <<i>> \o sorted

RECURSIVE SortByScore(_, _, _)
SortByScore(idx, mems, qe) ==
    IF idx = <<>> THEN <<>>
    ELSE InsertByScore(SortByScore(SubSeq(idx, 1, Len(idx) - 1), mems, qe),
                       idx[Len(idx)], mems, qe)

SliceMutant(seq, k) == seq
\* Python's seq[:k]: the first k, or all but the last -k when k is negative.
Slice(seq, k) ==
    IF k >= 0 THEN SubSeq(seq, 1, Min(k, Len(seq)))
    ELSE SubSeq(seq, 1, Max(Len(seq) + k, 0))

TopMemoriesMutant(mems, qe, top_k, min_importance) ==
    Slice(ScoredMemories(mems, min_importance, 1), top_k)
\* top_memories, as indices into memories.
TopMemories(mems, qe, top_k, min_importance) ==
    Slice(SortByScore(ScoredMemories(mems, min_importance, 1), mems, qe), top_k)

InSeq(x, seq) == \E j \in 1..Len(seq) : seq[j] = x

TouchEpoch(mems, top, now) ==
    [i \in 1..Len(mems) |->
        IF InSeq(i, top)
        THEN [mems[i] EXCEPT !.access_count = @ + 1, !.last_accessed = 0]
        ELSE mems[i]]
TouchMutant(mems, top, now) ==
    [i \in 1..Len(mems) |->
        [mems[i] EXCEPT !.access_count = @ + 1, !.last_accessed = now]]
\* memory.access_count += 1; memory.last_accessed = time.time()
Touch(mems, top, now) ==
    [i \in 1..Len(mems) |->
        IF InSeq(i, top)
        THEN [mems[i] EXCEPT !.access_count = @ + 1, !.last_accessed = now]
        ELSE mems[i]]

(***************************************************************************)
(* Consolidation.                                                          *)
(***************************************************************************)
DecayFactorMutant(now, timestamp) ==
    LET age_days == (now - timestamp) \div (SecondsPerDay * UnitsPerSecond)
    IN  (1000 * 1000)
           \div ExpNegTenths((age_days * 10) \div MEMORY_DECAY_HALF_LIFE_DAYS)
\* age_days = (current_time - memory.timestamp) / 86400
\* decay_factor = np.exp(-age_days / MEMORY_DECAY_HALF_LIFE_DAYS), thousandths
DecayFactor(now, timestamp) ==
    LET age_days == (now - timestamp) \div (SecondsPerDay * UnitsPerSecond)
    IN  ExpNegTenths((age_days * 10) \div MEMORY_DECAY_HALF_LIFE_DAYS)

DecayMutant(m, now) ==
    [m EXCEPT !.importance = (@ * DecayFactor(now, m.timestamp)) \div 1000,
              !.last_accessed = now]
\* memory.importance *= decay_factor
Decay(m, now) ==
    [m EXCEPT !.importance = (@ * DecayFactor(now, m.timestamp)) \div 1000]

RetainedMutant(m) == m.importance >= MEMORY_IMPORTANCE_THRESHOLD
\* m.importance > MEMORY_IMPORTANCE_THRESHOLD
Retained(m) == m.importance > MEMORY_IMPORTANCE_THRESHOLD

DecayAll(mems, now) == [i \in 1..Len(mems) |-> Decay(mems[i], now)]

\* cluster_memories raises on embeddings of different lengths once there are
\* min_samples entries: np.array of ragged lists.
ClusterRaises(mems) ==
    /\ Len(mems) >= 2
    /\ \E i, j \in 1..Len(mems) : mems[i].embedding.dim # mems[j].embedding.dim

(***************************************************************************)
(* State.                                                                  *)
(***************************************************************************)
VARIABLES
    embedding_model,      \* a SentenceTransformer was loaded
    compression_enabled,
    memories,             \* the live index, a sequence of entries
    ledger,               \* [files, commits]: the working tree and the history
    clock,                \* time.time(), in clock units
    nextId,               \* entries constructed so far
    lastOp,               \* the last call: its arguments, what the environment
                          \* did to it, and what it returned or raised
    appended,             \* by entry id: importance, decay history, results
    addsReturned,         \* add_memory calls that have returned
    addsCommitted,        \* of those, the ones whose commit did not raise
    cyclesRun,            \* consolidate_memories calls counted against MaxCycles
    calls,                \* the add_memory coroutines on the event loop
    queue,                \* the executor's work queue
    workers,              \* the executor's threads
    git_lock,             \* _git_lock: the worker holding it, or 0
    tasks,                \* the coroutines that consolidate: the direct caller
                          \* (0) and the consolidation_loop tasks created
    consolidation_task,   \* _consolidation_task: a task, or 0 for None
    running,              \* the coroutine the event loop is running, if any
    stopped,              \* stop_background_tasks has returned since the
                          \* last start_background_tasks
    stats,                \* what the last get_stats call returned
    message_queue,        \* HumanAINode.message_queue, oldest message first
    history,              \* what the last get_conversation_history returned
    blockchain,           \* FediverseConnector.blockchain
    verified,             \* what the last verify_blockchain call returned,
                          \* if any
    tampered,             \* a record was overwritten from outside
    pass,                 \* by consolidating coroutine: where its decay loop
                          \* is, the entries it found and those it decayed
    reader,               \* the retrieve_memories coroutine: where it is and
                          \* the index as it was when it was called
    agents,               \* HumanAINode.agents: the ids in the dict's order
    dispatch,             \* the process_message call that triggers agents:
                          \* where it is and what it has done
    zset,                 \* the rate limiter's sorted set in Redis, for one
                          \* key: each member with its score
    checks                \* the check_rate_limit coroutines

vars == <<embedding_model, compression_enabled, memories, ledger, clock,
          nextId, lastOp, appended, addsReturned, addsCommitted, cyclesRun,
          calls, queue, workers, git_lock,
          tasks, consolidation_task, running, stopped, stats,
          message_queue, history, blockchain, verified, tampered,
          pass, reader, agents, dispatch, zset, checks>>

config == <<embedding_model, compression_enabled>>
pool == <<calls, queue, workers, git_lock>>
timers == <<tasks, consolidation_task, running, stopped>>
\* What the memory store's calls leave alone.
node == <<message_queue, history>>
chain == <<blockchain, verified, tampered>>
loop == <<pass, reader>>
services == <<agents, dispatch, zset, checks>>
rest == <<timers, stats, node, chain, loop, services>>

Workers == 1..MaxWorkers
Calls == 1..MaxCalls
Tasks == 1..MaxTasks
Checkers == 1..MaxChecks
Actors == {0} \cup Tasks

NoEmbedding == [dim |-> 0, vec |-> <<0, 0>>]

NoOp == [op |-> "none", id |-> 0, arg |-> 0, save |-> None, raised |-> FALSE,
         result |-> <<>>, query |-> "", min |-> 0, fails |-> FALSE]

\* A coroutine that has not been in the decay loop.
NoPass == [next |-> 0, found |-> {}, done |-> {}]

\* No process_message call with trigger_agents is under way.
NoDispatch == [pc |-> "idle", sender |-> "", todo |-> <<>>, sent |-> <<>>,
               succeeded |-> <<>>]

\* A check_rate_limit coroutine that has not been called.
NoCheck == [pc |-> "idle", now |-> 0, count |-> 0, allowed |-> FALSE]

\* get_stats has not been called.
NoStats == [called |-> FALSE]

\* DiffMemManager.__init__ on a new storage path: Repo.init, no memories;
\* beside it a new HumanAINode and a new FediverseConnector.
\* models and compressions are the configurations a specification considers.
InitWith(models, compressions) ==
    /\ embedding_model \in models
    /\ compression_enabled \in compressions
    /\ memories = <<>>
    /\ ledger = [files |-> <<>>, commits |-> <<>>]
    /\ clock = 0
    /\ nextId = 0
    /\ lastOp = NoOp
    /\ appended = <<>>
    /\ addsReturned = 0
    /\ addsCommitted = 0
    /\ cyclesRun = 0
    /\ calls = [c \in Calls |-> [pc |-> "idle", content |-> "", importance |-> 0,
                                 embedding |-> NoEmbedding, id |-> 0,
                                 save |-> None]]
    /\ queue = <<>>
    /\ workers = [w \in Workers |-> [pc |-> "idle", call |-> 0]]
    /\ git_lock = 0
    /\ tasks = [a \in Actors |->
                  [pc |-> IF a = 0 THEN "idle" ELSE "none", failed |-> FALSE]]
    /\ consolidation_task = 0
    /\ running = {}
    /\ stopped = FALSE
    /\ stats = NoStats
    /\ message_queue = <<>>
    /\ history = <<>>
    /\ blockchain = <<>>
    /\ verified = {}
    /\ tampered = FALSE
    /\ pass = [a \in Actors |-> NoPass]
    /\ reader = [pc |-> "idle", seen |-> <<>>]
    /\ agents = <<>>
    /\ dispatch = NoDispatch
    /\ zset = {}
    /\ checks = [k \in Checkers |-> NoCheck]

Ids(mems) == {mems[i].id : i \in 1..Len(mems)}

(***************************************************************************)
(* The environment's clock.                                                *)
(***************************************************************************)
AdvanceFine ==
    /\ clock % PeriodUnits < MaxFine
    /\ clock' = clock + 1
    /\ UNCHANGED <<rest, config, memories, ledger, nextId, lastOp, appended,
                   addsReturned, addsCommitted, cyclesRun, pool>>

AdvancePeriod ==
    /\ clock \div PeriodUnits < MaxPeriods
    /\ clock' = clock + PeriodUnits
    /\ UNCHANGED <<rest, config, memories, ledger, nextId, lastOp, appended,
                   addsReturned, addsCommitted, cyclesRun, pool>>

(***************************************************************************)
(* The store's operations, each call run to its return.                    *)
(***************************************************************************)
\* add_memory(content, importance): embed, construct, append, save, return.
AddMemory(content, importance, encodeRaises, outcome) ==
    LET id == nextId + 1
        embedding == GenerateEmbedding(embedding_model, encodeRaises, content)
        memory == NewEntry(id, content, importance, embedding, "unknown", clock)
    IN  /\ nextId < MaxAdds
        /\ nextId' = id
        /\ memories' = Append(memories, memory)
        /\ ledger' = SaveToGitSync(ledger, compression_enabled, memory, outcome)
        /\ appended' = Append(appended, [importance |-> memory.importance,
                                         cycles |-> 0, cycleAt |-> 0,
                                         hits |-> 0])
        /\ addsReturned' = addsReturned + 1
        /\ addsCommitted' = addsCommitted + (IF outcome = "ok" THEN 1 ELSE 0)
        /\ lastOp' = [op |-> "add", id |-> id, arg |-> importance,
                      save |-> outcome, raised |-> ~Swallows(outcome),
                      result |-> <<id>>, query |-> "", min |-> 0,
                      fails |-> encodeRaises]
        /\ UNCHANGED <<rest, config, clock, cyclesRun, pool>>

\* The record of the results an entry has been returned in.
NoteHits(hist, result) ==
    [id \in 1..Len(hist) |->
        IF InSeq(id, result) THEN [hist[id] EXCEPT !.hits = @ + 1]
        ELSE hist[id]]

\* retrieve_memories(query, top_k, min_importance)
RetrieveMemories(query, top_k, min_importance, encodeRaises) ==
    LET qe == GenerateEmbedding(embedding_model, encodeRaises, query)
        top == TopMemories(memories, qe, top_k, min_importance)
        raises == memories # <<>> /\ SimilarityRaises(memories, qe)
    IN  /\ \A i \in 1..Len(memories) : memories[i].access_count < MaxAccess
        /\ memories' = IF memories = <<>> \/ raises THEN memories
                       ELSE Touch(memories, top, clock)
        /\ lastOp' = [op |-> "retrieve", id |-> 0, arg |-> top_k, save |-> None,
                      raised |-> raises,
                      result |-> IF memories = <<>> \/ raises THEN <<>>
                                 ELSE [j \in 1..Len(top) |-> memories[top[j]].id],
                      query |-> query, min |-> min_importance,
                      fails |-> encodeRaises]
        /\ appended' = NoteHits(appended, lastOp'.result)
        /\ UNCHANGED <<rest, config, ledger, clock, nextId, addsReturned,
                       addsCommitted, cyclesRun, pool>>

\* The record of the decay passes an entry has been through.
NoteCycle(hist, decayed, now) ==
    [id \in 1..Len(hist) |->
        IF id \in Ids(decayed)
        THEN [hist[id] EXCEPT !.cycles = Min(@ + 1, 2), !.cycleAt = now]
        ELSE hist[id]]

\* The results a pruned entry was returned in are no longer kept.
ForgetHits(hist, kept) ==
    [id \in 1..Len(hist) |->
        IF id \in Ids(kept) THEN hist[id] ELSE [hist[id] EXCEPT !.hits = 0]]

ConsolidateLedgerMutant(l, kept) ==
    [l EXCEPT !.files =
        [n \in {x \in DOMAIN l.files :
                   \E i \in 1..Len(kept) : FileName(kept[i].timestamp) = x}
            |-> l.files[n]]]
\* consolidate_memories does not touch the repository.
ConsolidateLedger(l, kept) == l

\* consolidate_memories(): decay every entry, drop the low ones, cluster.
ConsolidateMemories ==
    LET decayed == DecayAll(memories, clock)
        kept == SelectSeq(decayed, Retained)
    IN  /\ cyclesRun < MaxCycles
        /\ cyclesRun' = cyclesRun + 1
        /\ memories' = IF memories = <<>> THEN memories ELSE kept
        /\ ledger' = ConsolidateLedger(ledger, memories')
        /\ appended' = ForgetHits(NoteCycle(appended, memories, clock),
                                  memories')
        /\ lastOp' = [op |-> "consolidate", id |-> 0, arg |-> 0, save |-> None,
                      raised |-> ClusterRaises(memories'),
                      result |-> <<>>, query |-> "", min |-> 0,
                      fails |-> FALSE]
        /\ UNCHANGED <<rest, config, clock, nextId, addsReturned, addsCommitted, pool>>

(***************************************************************************)
(* The ledger: appends whose write or commit may fail and whose timestamps *)
(* may share a millisecond, with retrieval and consolidation in between.   *)
(***************************************************************************)
InitLedger == InitWith({FALSE}, {TRUE})

NextLedger ==
    \/ AdvanceFine
    \/ \E o \in SaveOutcomes : AddMemory("python", 100, FALSE, o)
    \/ AddMemory("python", 12000, FALSE, "ok")
    \/ RetrieveMemories("python", 1, 0, FALSE)
    \/ ConsolidateMemories

SpecLedger == InitLedger /\ [][NextLedger]_vars

(***************************************************************************)
(* Importance: appends of any requested importance, with retrieval and     *)
(* consolidation as the clock moves on by days.                            *)
(***************************************************************************)
InitDecay == InitWith({FALSE}, {FALSE})

NextDecay ==
    \/ AdvancePeriod
    \/ \E x \in Importances : AddMemory("python", x, FALSE, "ok")
    \/ RetrieveMemories("python", 1, 0, FALSE)
    \/ ConsolidateMemories

SpecDecay == InitDecay /\ [][NextDecay]_vars

(***************************************************************************)
(* Concurrent add_memory calls: coroutines on one event loop, their        *)
(* embedding and save jobs on the executor's two threads.  A coroutine     *)
(* runs from one await to the next without interruption; a thread may be   *)
(* interrupted between any two steps.                                      *)
(***************************************************************************)
\* add_memory up to its first await: run_in_executor(_generate_embedding).
CallAddMemory(c, content, importance) ==
    /\ calls[c].pc = "idle"
    /\ calls' = [calls EXCEPT ![c] = [@ EXCEPT !.pc = "embedding",
                                               !.content = content,
                                               !.importance = importance]]
    /\ queue' = Append(queue, [call |-> c, fn |-> "embed"])
    /\ UNCHANGED <<rest, config, memories, ledger, clock, nextId, lastOp, appended,
                   addsReturned, addsCommitted, cyclesRun, workers, git_lock>>

\* A thread of the pool takes the next job.
WorkerTake(w) ==
    /\ workers[w].pc = "idle"
    /\ queue # <<>>
    /\ workers' = [workers EXCEPT ![w] =
          [pc |-> IF Head(queue).fn = "embed" THEN "embed" ELSE "acquire",
           call |-> Head(queue).call]]
    /\ queue' = Tail(queue)
    /\ UNCHANGED <<rest, config, memories, ledger, clock, nextId, lastOp, appended,
                   addsReturned, addsCommitted, cyclesRun, calls, git_lock>>

\* _generate_embedding on a thread; its future completes.
WorkerEmbed(w, encodeRaises) ==
    LET c == workers[w].call
    IN  /\ workers[w].pc = "embed"
        /\ calls' = [calls EXCEPT ![c] = [@ EXCEPT
              !.pc = "embedded",
              !.embedding = GenerateEmbedding(embedding_model, encodeRaises,
                                              calls[c].content)]]
        /\ workers' = [workers EXCEPT ![w] = [pc |-> "idle", call |-> 0]]
        /\ UNCHANGED <<rest, config, memories, ledger, clock, nextId, lastOp, appended,
                       addsReturned, addsCommitted, cyclesRun, queue, git_lock>>

\* add_memory from the embedding's await to the next: the entry is
\* constructed and appended, and its save is handed to the executor.
ResumeConstruct(c) ==
    LET id == nextId + 1
        memory == NewEntry(id, calls[c].content, calls[c].importance,
                           calls[c].embedding, "unknown", clock)
    IN  /\ calls[c].pc = "embedded"
        /\ nextId' = id
        /\ memories' = Append(memories, memory)
        /\ appended' = Append(appended, [importance |-> memory.importance,
                                         cycles |-> 0, cycleAt |-> 0,
                                         hits |-> 0])
        /\ calls' = [calls EXCEPT ![c] = [@ EXCEPT !.pc = "saving", !.id = id]]
        /\ queue' = Append(queue, [call |-> c, fn |-> "save"])
        /\ UNCHANGED <<rest, config, ledger, clock, lastOp, addsReturned,
                       addsCommitted, cyclesRun, workers, git_lock>>

\* The entry object a call constructed: its fields as they are now.
EntryOf(c) ==
    LET i == CHOOSE i \in 1..Len(memories) : memories[i].id = calls[c].id
    IN  memories[i]

LockFreeMutant(lock) == TRUE
\* threading.Lock: acquire succeeds only while nobody holds the lock.
LockFree(lock) == lock = 0

\* with self._git_lock: the thread blocks until it holds the lock.
WorkerAcquire(w) ==
    /\ workers[w].pc = "acquire"
    /\ LockFree(git_lock)
    /\ git_lock' = w
    /\ workers' = [workers EXCEPT ![w].pc = "write"]
    /\ UNCHANGED <<rest, config, memories, ledger, clock, nextId, lastOp, appended,
                   addsReturned, addsCommitted, cyclesRun, calls, queue>>

\* to_dict, compression, open(filepath, 'w'), json.dump; an exception goes
\* to the except clause and on to the end of the with block.
WorkerWrite(w, raises) ==
    LET c == workers[w].call
        m == EntryOf(c)
    IN  /\ workers[w].pc = "write"
        /\ ledger' = IF raises THEN ledger
                     ELSE SaveToGitSync(ledger, compression_enabled, m,
                                        "commit_failed")
        /\ workers' = [workers EXCEPT ![w].pc =
                          IF raises THEN "release" ELSE "commit"]
        /\ calls' = [calls EXCEPT ![c].save =
                          IF raises THEN "write_failed" ELSE @]
        /\ UNCHANGED <<rest, config, memories, clock, nextId, lastOp, appended,
                       addsReturned, addsCommitted, cyclesRun, queue, git_lock>>

\* repo.index.add and repo.index.commit; an exception goes to the except
\* clause.
WorkerCommit(w, raises) ==
    LET c == workers[w].call
        m == EntryOf(c)
        name == FileName(m.timestamp)
    IN  /\ workers[w].pc = "commit"
        /\ ledger' = IF raises THEN ledger
                     ELSE [ledger EXCEPT !.commits =
                              GitCommit(@, name, ledger.files[name], m)]
        /\ workers' = [workers EXCEPT ![w].pc = "release"]
        /\ calls' = [calls EXCEPT ![c].save =
                          IF raises THEN "commit_failed" ELSE "ok"]
        /\ UNCHANGED <<rest, config, memories, clock, nextId, lastOp, appended,
                       addsReturned, addsCommitted, cyclesRun, queue, git_lock>>

ReleaseLockMutant(lock, w, outcome) ==
    IF lock = w /\ outcome = "ok" THEN 0 ELSE lock
\* __exit__ of "with self._git_lock": the holder releases, whatever the
\* outcome of the block.
ReleaseLock(lock, w, outcome) == IF lock = w THEN 0 ELSE lock

\* The end of the with block releases the lock on every path;
\* _save_to_git_sync returns and its future completes.
WorkerRelease(w) ==
    LET c == workers[w].call
    IN  /\ workers[w].pc = "release"
        /\ git_lock' = ReleaseLock(git_lock, w, calls[c].save)
        /\ workers' = [workers EXCEPT ![w] = [pc |-> "idle", call |-> 0]]
        /\ calls' = [calls EXCEPT ![c].pc = "saved"]
        /\ UNCHANGED <<rest, config, memories, ledger, clock, nextId, lastOp, appended,
                       addsReturned, addsCommitted, cyclesRun, queue>>

SaveAwaitedMutant(c) == calls[c].pc \in {"saving", "saved"}
\* await self._save_to_git(memory): the coroutine goes on once the save's
\* future has completed.
SaveAwaited(c) == calls[c].pc = "saved"

\* add_memory from the save's await to its return.
ResumeReturn(c) ==
    /\ SaveAwaited(c)
    /\ calls' = [calls EXCEPT ![c].pc = "returned"]
    /\ addsReturned' = addsReturned + 1
    /\ addsCommitted' = addsCommitted + (IF calls[c].save = "ok" THEN 1 ELSE 0)
    /\ lastOp' = [op |-> "add", id |-> calls[c].id, arg |-> calls[c].importance,
                  save |-> calls[c].save, raised |-> ~Swallows(calls[c].save),
                  result |-> <<calls[c].id>>, query |-> "", min |-> 0,
                  fails |-> FALSE]
    /\ UNCHANGED <<rest, config, memories, ledger, clock, nextId, appended, cyclesRun,
                   queue, workers, git_lock>>

InitConc == InitWith({FALSE}, {TRUE})

NextConc ==
    \/ \E c \in Calls, t \in Contents : CallAddMemory(c, t, 5000)
    \/ \E w \in Workers : WorkerTake(w)
    \/ \E w \in Workers : WorkerEmbed(w, FALSE)
    \/ \E c \in Calls : ResumeConstruct(c)
    \/ \E w \in Workers : WorkerAcquire(w)
    \/ \E w \in Workers, r \in BOOLEAN : WorkerWrite(w, r)
    \/ \E w \in Workers, r \in BOOLEAN : WorkerCommit(w, r)
    \/ \E w \in Workers : WorkerRelease(w)
    \/ \E c \in Calls : ResumeReturn(c)

SpecConc == InitConc /\ [][NextConc]_vars

(***************************************************************************)
(* Properties of the ledger, under SpecLedger.                             *)
(***************************************************************************)
Live(id) == \E i \in 1..Len(memories) : memories[i].id = id
LiveEntry(id) == memories[CHOOSE i \in 1..Len(memories) : memories[i].id = id]

IsPrefix(s, t) == Len(s) <= Len(t) /\ \A i \in 1..Len(s) : s[i] = t[i]

\* C1, as claimed: the version history has one commit for every add_memory
\* call that has returned, calls whose commit hit an I/O error included.
C1_HistoryCountsEveryAdd == Len(ledger.commits) = addsReturned

\* C1, amended: the version history has one commit for every add_memory call
\* that has returned and whose write and commit both succeeded, calls whose
\* entries share a millisecond included; a call whose write or commit raised
\* has returned without a commit.
C1_HistoryCountsCommittedAdds ==
    /\ Len(ledger.commits) = addsCommitted
    /\ addsCommitted <= addsReturned

\* Two calls have returned, the commit of one failed, and their entries fall
\* in the same millisecond.
C1_Witness ==
    /\ addsReturned = 2
    /\ addsCommitted = 1
    /\ Len(memories) = 2
    /\ memories[1].timestamp # memories[2].timestamp
    /\ FileName(memories[1].timestamp) = FileName(memories[2].timestamp)

\* C3, as claimed: every commit adds a record of its own and replaces none,
\* so the ledger holds at least as many distinct records as commits were made.
C3_CommitsLeaveDistinctRecords ==
    Cardinality(DOMAIN ledger.files) >= Len(ledger.commits)

\* C4: when the write or the commit of an add_memory call raised, the call
\* has still returned its entry, without raising, and the entry is live.
C4_FailedCommitKeepsEntry ==
    (lastOp.op = "add" /\ lastOp.save # "ok")
        => /\ ~lastOp.raised
           /\ lastOp.result = <<lastOp.id>>
           /\ Live(lastOp.id)

\* An add_memory call whose commit raised has returned.
C4_Witness ==
    /\ lastOp.op = "add"
    /\ lastOp.save = "commit_failed"
    /\ Live(lastOp.id)
    /\ Len(ledger.commits) < addsReturned

\* C5: no step removes or rewrites a commit or removes a record file, and a
\* consolidate_memories cycle leaves the whole ledger as it was.
C5_ConsolidationKeepsLedger ==
    [][/\ IsPrefix(ledger.commits, ledger'.commits)
       /\ DOMAIN ledger.files \subseteq DOMAIN ledger'.files
       /\ (cyclesRun' # cyclesRun => ledger' = ledger)]_vars

\* A cycle has pruned an entry whose commit is in the ledger.
C5_Witness ==
    /\ lastOp.op = "consolidate"
    /\ Len(memories) < nextId
    /\ Len(ledger.commits) = nextId
    /\ nextId = 2

(***************************************************************************)
(* Properties of importance, under SpecDecay.                              *)
(***************************************************************************)
\* C6: a consolidate_memories cycle leaves exactly the previously live
\* entries whose decayed importance is above 0.1, each with its decayed
\* importance, in their order; nothing at or below 0.1 stays, nothing above
\* 0.1 goes, nothing is added.
C6_PruningPostcondition ==
    [][cyclesRun' # cyclesRun =>
          /\ \A j \in 1..Len(memories') : memories'[j].importance > 100
          /\ \A i \in 1..Len(memories) :
                Decay(memories[i], clock).importance > 100
                   => \E j \in 1..Len(memories') :
                         memories'[j] = Decay(memories[i], clock)
          /\ \A j \in 1..Len(memories') :
                \E i \in 1..Len(memories) :
                   memories'[j] = Decay(memories[i], clock)
          /\ \A j, k \in 1..Len(memories') :
                j < k => memories'[j].id < memories'[k].id]_vars

\* A cycle has dropped one entry and kept another.
C6_Witness ==
    /\ lastOp.op = "consolidate"
    /\ Len(memories) = 1
    /\ nextId = 2
    /\ memories[1].importance < appended[memories[1].id].importance

\* C7, as claimed: an entry that has been through consolidation holds its
\* appended importance times exp(-age_days / 30) for its age at the most
\* recent cycle, however many cycles ran.
C7_DecayNotCompounded ==
    \A i \in 1..Len(memories) :
        LET m == memories[i]
            h == appended[m.id]
        IN  h.cycles > 0 =>
               m.importance =
                  (h.importance * DecayFactor(h.cycleAt, m.timestamp)) \div 1000

\* C8: no step raises the importance of an entry that stays live.
C8_DecayMonotone ==
    [][\A i \in 1..Len(memories), j \in 1..Len(memories') :
          memories[i].id = memories'[j].id
             => memories'[j].importance <= memories[i].importance]_vars

\* A cycle has lowered the importance of an entry that was retrieved before.
C8_Witness ==
    /\ lastOp.op = "consolidate"
    /\ \E i \in 1..Len(memories) :
          /\ memories[i].importance < appended[memories[i].id].importance
          /\ memories[i].access_count > 0

\* C9: every live entry has an importance from 0.0 to 10.0.
C9_ImportanceBounds ==
    \A i \in 1..Len(memories) :
        /\ memories[i].importance >= 0
        /\ memories[i].importance <= 10000

\* After a cycle that decayed a live entry, a request below the range has
\* been appended.
C9_Witness ==
    /\ lastOp.op = "add"
    /\ lastOp.arg < 0
    /\ Live(lastOp.id)
    /\ \E i \in 1..Len(memories) :
          memories[i].importance < appended[memories[i].id].importance

\* C10: the entry add_memory returns holds min(max(x, 0), 10) for the
\* requested x: 0 below the range, 10 above it, x itself within it.
C10_ClampLaw ==
    lastOp.op = "add" =>
        /\ lastOp.result = <<lastOp.id>>
        /\ Live(lastOp.id)
        /\ LiveEntry(lastOp.id).importance = Min(Max(lastOp.arg, 0), 10000)

\* An in-range request, 5.0, has been stored unchanged.
C10_Witness ==
    /\ lastOp.op = "add"
    /\ lastOp.arg = 5000
    /\ Live(lastOp.id)
    /\ LiveEntry(lastOp.id).importance = 5000

(***************************************************************************)
(* Properties of the executor and the lock, under SpecConc.                *)
(***************************************************************************)
InCommit(w) == workers[w].pc \in {"write", "commit", "release"}

\* C2: no two threads are inside the write / index-add / commit sequence of
\* _save_to_git_sync at once.
C2_OneCommitInFlight ==
    \A v, w \in Workers : (InCommit(v) /\ InCommit(w)) => v = w

\* One thread is committing while the other waits for the lock with the save
\* of another call.
C2_Witness ==
    \E v, w \in Workers :
        /\ workers[v].pc = "commit"
        /\ workers[w].pc = "acquire"
        /\ git_lock = v

(***************************************************************************)
(* Retrieval: a store on the hash-derived embedding, entries of two        *)
(* contents and two importances, queried with any top_k and min_importance, *)
(* with consolidation in between.                                          *)
(***************************************************************************)
InitRetrieve == InitWith({FALSE}, {FALSE})

NextRetrieve ==
    \/ \E t \in Contents, x \in RankedImportances : AddMemory(t, x, FALSE, "ok")
    \/ \E k \in TopKs, mi \in MinImportances :
          RetrieveMemories("python", k, mi, FALSE)
    \/ ConsolidateMemories

SpecRetrieve == InitRetrieve /\ [][NextRetrieve]_vars

(***************************************************************************)
(* Properties of retrieval, under SpecRetrieve.                            *)
(***************************************************************************)
\* The embedding retrieve_memories got for the query of the call op.
QueryEmbedding(op) == GenerateEmbedding(embedding_model, op.fails, op.query)

\* In the properties below, memories is the store when the call was made
\* and lastOp' the call as it returned.
\* C11: a retrieve_memories call with top_k >= 0 returns at most top_k
\* entries, and none when top_k is 0.
C11_TopKBound ==
    (lastOp.op = "retrieve" /\ ~lastOp.raised /\ lastOp.arg >= 0)
        => Len(lastOp.result) <= lastOp.arg

\* A call with top_k = 1 on a store of two candidates has returned one entry.
C11_Witness ==
    /\ lastOp.op = "retrieve"
    /\ lastOp.arg = 1
    /\ Len(memories) >= 2
    /\ Len(lastOp.result) = 1

\* C12, as claimed: a retrieve_memories call with top_k <= 0, negative values
\* included, returns an empty sequence, does not raise, and updates no
\* entry's access statistics.
C12_NonPositiveTopKEmpty ==
    [][(lastOp'.op = "retrieve" /\ lastOp'.arg <= 0)
          => /\ lastOp'.result = <<>>
             /\ ~lastOp'.raised
             /\ memories' = memories]_vars

C14_ImportanceFilter ==
    [][lastOp'.op = "retrieve"
          => \A j \in 1..Len(lastOp'.result) :
                /\ Live(lastOp'.result[j])
                /\ LiveEntry(lastOp'.result[j]).importance >= lastOp'.min
                /\ LiveEntry(lastOp'.result[j]).embedding.dim > 0]_vars

\* A call with top_k = 2 on a store of two entries, one of importance 0.1,
\* has returned the other entry only: the filter has left one out.
C14_Witness ==
    /\ lastOp.op = "retrieve"
    /\ lastOp.arg = 2
    /\ Len(memories) = 2
    /\ Len(lastOp.result) = 1
    /\ \E i \in 1..2 : memories[i].importance = 100
    /\ LiveEntry(lastOp.result[1]).importance = 5000

\* C15: the result of a retrieve_memories call is in non-increasing order of
\* score = similarity * (1 + ln(1 + importance)), and no candidate left out
\* of the result has a strictly higher score than an entry in it.
C15_Ranking ==
    [][lastOp'.op = "retrieve"
          => LET qe == QueryEmbedding(lastOp')
                 r == lastOp'.result
             IN  /\ \A j \in 1..(Len(r) - 1) :
                       Score(qe, LiveEntry(r[j])) >= Score(qe, LiveEntry(r[j + 1]))
                 /\ \A i \in 1..Len(memories), j \in 1..Len(r) :
                       (/\ memories[i].importance >= lastOp'.min
                        /\ ~InSeq(memories[i].id, r))
                          => Score(qe, memories[i]) <= Score(qe, LiveEntry(r[j]))]_vars

\* A call with top_k = 1 on two candidates of the same importance has
\* returned the one appended second, the closer to the query.
C15_Witness ==
    /\ lastOp.op = "retrieve"
    /\ lastOp.arg = 1
    /\ Len(memories) = 2
    /\ memories[1].importance = 5000 /\ memories[2].importance = 5000
    /\ memories[1].content = "long" /\ memories[2].content = "python"
    /\ lastOp.result = <<memories[2].id>>

(***************************************************************************)
(* Degraded conditions: a store with a loaded embedding model whose encode *)
(* may raise on any call, and a ledger whose write or commit may raise on  *)
(* any save.                                                               *)
(***************************************************************************)
InitEmbed == InitWith({TRUE}, {FALSE})

NextEmbed ==
    \/ \E x \in RankedImportances, e \in BOOLEAN, o \in {"ok", "write_failed"} :
          AddMemory("pizza", x, e, o)
    \/ \E q \in Queries, mi \in MinImportances, e \in BOOLEAN :
          RetrieveMemories(q, 2, mi, e)

SpecEmbed == InitEmbed /\ [][NextEmbed]_vars

(***************************************************************************)
(* Properties under degraded conditions, under SpecEmbed.                  *)
(***************************************************************************)
RanksAbove(a, b, r) ==
    \E ja, jb \in 1..Len(r) : r[ja] = a /\ r[jb] = b /\ ja < jb

\* Of two candidates of a call whose similarities to the query are equal and
\* satisfy sim, the one of higher importance is above the other in the
\* result whenever the other is in it.
HigherImportanceFirst(qe, mi, r, sim(_)) ==
    \A a, b \in 1..Len(memories) :
        (/\ memories[a].importance >= mi
         /\ memories[b].importance >= mi
         /\ CosineSimilarity(qe.vec, memories[a].embedding.vec)
               = CosineSimilarity(qe.vec, memories[b].embedding.vec)
         /\ sim(CosineSimilarity(qe.vec, memories[a].embedding.vec))
         /\ memories[a].importance > memories[b].importance
         /\ InSeq(memories[b].id, r))
            => RanksAbove(memories[a].id, memories[b].id, r)

AnySimilarity(s) == TRUE
PositiveSimilarity(s) == s > 0

\* C16, as claimed: of any two candidates with equal similarity to the query
\* and different importance, the one of higher importance ranks above the
\* other in the result of retrieve_memories.
C16_ImportanceRanksAbove ==
    [][lastOp'.op = "retrieve"
          => HigherImportanceFirst(QueryEmbedding(lastOp'), lastOp'.min,
                                   lastOp'.result, AnySimilarity)]_vars

\* C16, amended: of any two candidates with equal, strictly positive
\* similarity to the query and different importance, the one of higher
\* importance ranks above the other in the result of retrieve_memories.
C16_ImportanceRanksAbovePositive ==
    [][lastOp'.op = "retrieve"
          => HigherImportanceFirst(QueryEmbedding(lastOp'), lastOp'.min,
                                   lastOp'.result, PositiveSimilarity)]_vars

\* A call has returned two entries of the same content with the one
\* appended second, of importance 5.0, above the first, of importance 0.1.
C16_Witness ==
    /\ lastOp.op = "retrieve"
    /\ Len(memories) = 2
    /\ memories[1].content = memories[2].content
    /\ memories[1].embedding = memories[2].embedding
    /\ memories[1].importance = 100 /\ memories[2].importance = 5000
    /\ lastOp.result = <<memories[2].id, memories[1].id>>

\* C17, as claimed: a retrieve_memories call on an empty store, or with
\* min_importance above the importance of every live entry, returns an empty
\* sequence, does not raise, and changes no state.
C17_EmptyOrFilteredNoError ==
    [][(/\ lastOp'.op = "retrieve"
        /\ \A i \in 1..Len(memories) : memories[i].importance < lastOp'.min)
          => /\ lastOp'.result = <<>>
             /\ ~lastOp'.raised
             /\ memories' = memories
             /\ ledger' = ledger]_vars

\* C18, as claimed: in every state all live entries have embeddings of the
\* same length, also when the model's encode raised on some add_memory calls
\* and succeeded on others.
C18_ConstantDimensionality ==
    \A i, j \in 1..Len(memories) :
        memories[i].embedding.dim = memories[j].embedding.dim

\* C19: an add_memory call returns an entry with an embedding, whether or not
\* the model's encode raised, and when it raised the embedding is the
\* hash-derived vector of the content.
C19_EmbeddingNeverFails ==
    lastOp.op = "add"
        => /\ Live(lastOp.id)
           /\ LiveEntry(lastOp.id).embedding # NoEmbedding
           /\ LiveEntry(lastOp.id).embedding.dim > 0
           /\ lastOp.fails
                 => LiveEntry(lastOp.id).embedding.vec
                       = HashVec(LiveEntry(lastOp.id).content)

\* An add_memory call on a store with a loaded model has returned after the
\* model's encode raised.
C19_Witness ==
    /\ embedding_model
    /\ lastOp.op = "add"
    /\ lastOp.fails
    /\ Live(lastOp.id)
    /\ LiveEntry(lastOp.id).embedding.vec = HashVec("pizza")

\* C20, as claimed: whatever calls the embedding backend fails on and
\* whatever saves the ledger fails on, every add_memory and retrieve_memories
\* call returns a result and none raises.
C20_NoExceptionReachesCaller ==
    lastOp.op \in {"add", "retrieve"} => ~lastOp.raised

(***************************************************************************)
(* The consolidation timer.  Coroutines run on one event loop: a coroutine *)
(* that has the loop keeps it until it reaches an await that suspends it.  *)
(***************************************************************************)
SuspendsMutant(point) == TRUE
SuspendsInDecay(point) == point \in {"sleep", "executor", "decay"}
\* Whether the await at point hands the loop to other coroutines:
\* asyncio.sleep and run_in_executor do, while 'await self.cluster_memories()'
\* runs a coroutine that has no await of its own and so never suspends.
Suspends(point) == point \in {"sleep", "executor"}

InCycle(a) == tasks[a].pc \in {"consolidate", "prune", "cluster"}

AtRestMutant(a) == IF a = 0 THEN "idle" ELSE "ended"
\* Where a coroutine is when it is not consolidating: consolidation_loop
\* catches what a cycle raises and goes back to its sleep.
AtRest(a) == IF a = 0 THEN "idle" ELSE "sleeping"

\* start_background_tasks(): create_task(consolidation_loop()), which runs
\* to its first asyncio.sleep, and keep the task in _consolidation_task.
StartBackgroundTasks ==
    /\ running = {}
    /\ \E t \in Tasks :
          /\ tasks[t].pc = "none"
          /\ \A u \in Tasks : u < t => tasks[u].pc # "none"
          /\ tasks' = [tasks EXCEPT ![t].pc = "sleeping"]
          /\ consolidation_task' = t
    /\ stopped' = FALSE
    /\ UNCHANGED <<services, loop, node, chain, stats, config, memories, ledger, clock, nextId, lastOp, appended,
                   addsReturned, addsCommitted, cyclesRun, pool, running>>

\* stop_background_tasks(): cancel the task _consolidation_task refers to,
\* if any, and await it; CancelledError is raised at the task's sleep.
StopBackgroundTasks ==
    /\ running = {}
    /\ tasks' = IF consolidation_task # 0
                THEN [tasks EXCEPT ![consolidation_task].pc = "cancelled"]
                ELSE tasks
    /\ stopped' = TRUE
    /\ UNCHANGED <<services, loop, node, chain, stats, config, memories, ledger, clock, nextId, lastOp, appended,
                   addsReturned, addsCommitted, cyclesRun, pool,
                   consolidation_task, running>>

\* consolidation_loop: asyncio.sleep returns and consolidate_memories is
\* called inside the try.
TimerFires(t) ==
    /\ running = {}
    /\ tasks[t].pc = "sleeping"
    /\ tasks' = [tasks EXCEPT ![t] = [pc |-> "consolidate", failed |-> FALSE]]
    /\ running' = {t}
    /\ UNCHANGED <<services, loop, node, chain, stats, config, memories, ledger, clock, nextId, lastOp, appended,
                   addsReturned, addsCommitted, cyclesRun, pool,
                   consolidation_task, stopped>>

\* A caller awaits consolidate_memories() itself.
CallConsolidate ==
    /\ running = {}
    /\ tasks[0].pc = "idle"
    /\ tasks' = [tasks EXCEPT ![0].pc = "consolidate"]
    /\ running' = {0}
    /\ UNCHANGED <<services, loop, node, chain, stats, config, memories, ledger, clock, nextId, lastOp, appended,
                   addsReturned, addsCommitted, cyclesRun, pool,
                   consolidation_task, stopped>>

\* What a consolidate_memories call of coroutine a leaves when it ends.
EndOfCycle(a, raises) ==
    /\ tasks' = [tasks EXCEPT ![a] = [pc |-> AtRest(a), failed |-> raises]]
    /\ running' = {}
    /\ lastOp' = [op |-> "consolidate", id |-> a, arg |-> 0, save |-> None,
                  raised |-> raises /\ a = 0, result |-> <<>>, query |-> "",
                  min |-> 0, fails |-> FALSE]

\* consolidate_memories: 'if not self.memories: return', else the decay loop.
CycleDecay(a) ==
    /\ running = {a}
    /\ tasks[a].pc = "consolidate"
    /\ IF memories = <<>>
       THEN /\ EndOfCycle(a, FALSE)
            /\ UNCHANGED <<memories, appended>>
       ELSE /\ memories' = DecayAll(memories, clock)
            /\ appended' = NoteCycle(appended, memories, clock)
            /\ tasks' = [tasks EXCEPT ![a].pc = "prune"]
            /\ UNCHANGED <<running, lastOp>>
    /\ UNCHANGED <<services, loop, node, chain, stats, config, ledger, clock, nextId, addsReturned, addsCommitted,
                   cyclesRun, pool, consolidation_task, stopped>>

\* consolidate_memories: the filter on the threshold, up to the await of
\* cluster_memories.
CyclePrune(a) ==
    /\ running = {a}
    /\ tasks[a].pc = "prune"
    /\ memories' = SelectSeq(memories, Retained)
    /\ appended' = ForgetHits(appended, memories')
    /\ tasks' = [tasks EXCEPT ![a].pc = "cluster"]
    /\ running' = IF Suspends("cluster") THEN {} ELSE {a}
    /\ UNCHANGED <<services, loop, node, chain, stats, config, ledger, clock, nextId, lastOp, addsReturned,
                   addsCommitted, cyclesRun, pool, consolidation_task, stopped>>

\* consolidate_memories: cluster_memories and the return; what it raises
\* reaches a direct caller and is caught and logged by consolidation_loop.
CycleCluster(a) ==
    /\ running = {a} \/ (Suspends("cluster") /\ running = {})
    /\ tasks[a].pc = "cluster"
    /\ EndOfCycle(a, ClusterRaises(memories))
    /\ UNCHANGED <<services, loop, node, chain, stats, config, memories, ledger, clock, nextId, appended,
                   addsReturned, addsCommitted, cyclesRun, pool,
                   consolidation_task, stopped>>

InitTimer == InitWith({TRUE}, {FALSE})

NextTimer ==
    \/ StartBackgroundTasks
    \/ StopBackgroundTasks
    \/ \E t \in Tasks : TimerFires(t)
    \/ CallConsolidate
    \/ \E a \in Actors : CycleDecay(a)
    \/ \E a \in Actors : CyclePrune(a)
    \/ \E a \in Actors : CycleCluster(a)
    \/ \E e \in BOOLEAN : running = {} /\ AddMemory("pizza", 5000, e, "ok")
    \/ running = {} /\ AddMemory("pizza", 100, FALSE, "ok")

SpecTimer == InitTimer /\ [][NextTimer]_vars

(***************************************************************************)
(* Properties of the timer, under SpecTimer.                               *)
(***************************************************************************)
\* C21: whatever the interleaving of timer fires and direct
\* consolidate_memories calls, at most one coroutine is inside a
\* consolidation cycle (between its start and the end of its clustering).
C21_OneCycleAtATime ==
    \A a, b \in Actors : (InCycle(a) /\ InCycle(b)) => a = b

\* A cycle is between its pruning and its clustering while a
\* consolidation_loop task is asleep and another caller is waiting.
C21_Witness ==
    /\ \E a \in Actors : tasks[a].pc = "cluster"
    /\ \E t \in Tasks : tasks[t].pc = "sleeping"
    /\ memories # <<>>

\* The event loop runs every coroutine that is ready: a sleep that is over
\* returns, and a coroutine that has the loop goes on.
SpecTimerFair ==
    /\ SpecTimer
    /\ \A t \in Tasks : SF_vars(TimerFires(t))
    /\ \A a \in Actors :
          WF_vars(CycleDecay(a)) /\ WF_vars(CyclePrune(a)) /\ WF_vars(CycleCluster(a))

\* C22: when consolidate_memories raises inside consolidation_loop the task
\* goes back to its sleep, and from then on a later cycle is attempted
\* unless the task is cancelled.
C22_FailedCycleKeepsTimer ==
    /\ [][\A t \in Tasks :
            (tasks[t].pc = "cluster" /\ tasks'[t].failed)
               => tasks'[t].pc = "sleeping"]_vars
    /\ \A t \in Tasks :
          (tasks[t].failed /\ tasks[t].pc # "cancelled")
             ~> (tasks[t].pc = "consolidate" \/ tasks[t].pc = "cancelled")

\* A cycle of a consolidation_loop task has raised on embeddings of two
\* lengths and the task is asleep again.
C22_Witness ==
    \E t \in Tasks :
        /\ tasks[t].failed
        /\ tasks[t].pc = "sleeping"
        /\ ClusterRaises(memories)

\* C23, as claimed: once stop_background_tasks has returned, and until
\* start_background_tasks is called again, no consolidation_loop task begins
\* a consolidation cycle, whatever start and stop calls were made before.
C23_NoCycleAfterStop ==
    [][stopped
         => \A t \in Tasks :
               ~(tasks[t].pc = "sleeping" /\ tasks'[t].pc = "consolidate")]_vars

(***************************************************************************)
(* Statistics: get_stats on stores of any size, with and without           *)
(* compression.                                                            *)
(***************************************************************************)
\* sum(len(m.content) for m in self.memories), from entry i on.
RECURSIVE TotalSize(_, _)
TotalSize(mems, i) ==
    IF i > Len(mems) THEN 0
    ELSE ContentLen(mems[i].content) + TotalSize(mems, i + 1)

\* sum(m.importance for m in self.memories), from entry i on.
RECURSIVE TotalImportance(_, _)
TotalImportance(mems, i) ==
    IF i > Len(mems) THEN 0
    ELSE mems[i].importance + TotalImportance(mems, i + 1)

\* The dictionary get_stats returns; available is EMBEDDINGS_AVAILABLE.
StatsOf(mems, compression, available) ==
    IF mems = <<>>
    THEN [total_memories |-> 0,
          total_size_bytes |-> 0,
          average_importance |-> 0]
    ELSE [total_memories |-> Len(mems),
          total_size_bytes |-> TotalSize(mems, 1),
          total_size_mb |-> TotalSize(mems, 1) \div (1024 * 1024),
          average_importance |-> TotalImportance(mems, 1) \div Len(mems),
          compression_enabled |-> compression,
          embeddings_available |-> available]

\* get_stats(); the sentence-transformers import is taken to have succeeded
\* exactly when a model is loaded.
GetStats ==
    /\ stats' = StatsOf(memories, compression_enabled, embedding_model)
    /\ lastOp' = [op |-> "stats", id |-> 0, arg |-> 0, save |-> None,
                  raised |-> FALSE, result |-> <<>>, query |-> "", min |-> 0,
                  fails |-> FALSE]
    /\ UNCHANGED <<services, loop, node, chain, timers, config, memories, ledger, clock, nextId, appended,
                   addsReturned, addsCommitted, cyclesRun, pool>>

InitStats == InitWith({FALSE}, BOOLEAN)

NextStats ==
    \/ \E t \in Contents, x \in RankedImportances : AddMemory(t, x, FALSE, "ok")
    \/ ConsolidateMemories
    \/ GetStats

SpecStats == InitStats /\ [][NextStats]_vars

\* C24, as claimed: whatever the store holds, a fresh empty store included,
\* get_stats reports total_memories, total_size_bytes, average_importance
\* and compression_enabled, and total_memories is the size of the live index.
C24_StatsAlwaysComplete ==
    [][lastOp'.op = "stats"
         => /\ {"total_memories", "total_size_bytes", "average_importance",
                "compression_enabled"} \subseteq DOMAIN stats'
            /\ stats'.total_memories = Len(memories)]_vars

(***************************************************************************)
(* Properties of the entries' times, under SpecLedger.                     *)
(***************************************************************************)
\* C25: in every state, every live entry was last accessed no earlier than
\* it was created.
C25_AccessedAfterCreated ==
    \A i \in 1..Len(memories) : memories[i].last_accessed >= memories[i].timestamp

\* A live entry has been retrieved after the clock moved on from its
\* creation.
C25_Witness ==
    \E i \in 1..Len(memories) :
        /\ memories[i].access_count > 0
        /\ memories[i].last_accessed > memories[i].timestamp

(***************************************************************************)
(* The node's message queue and its history.                               *)
(***************************************************************************)
\* Message texts.
Texts == {"hello", "how", "bye"}
\* Requested limits: zero, fewer than queued, as many, more.
Limits == 0..(MaxMessages + 1)
\* The memory store's state, which the node and the connector leave alone
\* in the calls modelled here.
store == <<config, memories, ledger, clock, nextId, appended, addsReturned,
           addsCommitted, cyclesRun, pool, timers, stats, loop>>

\* deque(maxlen=MAX_MESSAGE_QUEUE_SIZE).append: the oldest goes when full.
DequeAppend(q, m) ==
    IF Len(q) >= MAX_MESSAGE_QUEUE_SIZE THEN Append(Tail(q), m) ELSE Append(q, m)

\* Python's seq[-k:]: the last k for k > 0, the whole of seq for k = 0 (the
\* slice from index -0 = 0), and all but the first -k for k < 0.
LastMessages(seq, k) ==
    IF k > 0 THEN SubSeq(seq, Len(seq) - Min(k, Len(seq)) + 1, Len(seq))
    ELSE SubSeq(seq, Min(-k, Len(seq)) + 1, Len(seq))

\* messages[-limit:] if len(messages) > limit else messages
ConversationHistory(q, limit) ==
    IF Len(q) > limit THEN LastMessages(q, limit) ELSE q

\* process_message(sender_id, content, store_in_memory=False,
\* trigger_agents=False): the message is made, queued and published.
ProcessMessage(sender, content) ==
    /\ Len(message_queue) < MaxMessages
    /\ message_queue' =
          DequeAppend(message_queue,
                      [sender |-> sender, content |-> content, encrypted |-> FALSE])
    /\ lastOp' = [op |-> "message", id |-> 0, arg |-> 0, save |-> None,
                  raised |-> FALSE, result |-> <<>>, query |-> content,
                  min |-> 0, fails |-> FALSE]
    /\ UNCHANGED <<services, store, chain, history>>

\* get_conversation_history(limit)
GetConversationHistory(limit) ==
    /\ history' = ConversationHistory(message_queue, limit)
    /\ lastOp' = [op |-> "history", id |-> 0, arg |-> limit, save |-> None,
                  raised |-> FALSE, result |-> <<>>, query |-> "", min |-> 0,
                  fails |-> FALSE]
    /\ UNCHANGED <<services, store, chain, message_queue>>

InitNode == InitWith({FALSE}, {FALSE})

NextNode ==
    \/ \E c \in Texts : ProcessMessage("user_1", c)
    \/ \E l \in Limits : GetConversationHistory(l)

SpecNode == InitNode /\ [][NextNode]_vars

\* C26, as claimed: get_conversation_history(limit) with limit >= 0, zero
\* included, returns at most limit messages, and they are the most recent
\* ones of the queue in their order of arrival.
C26_HistoryIsLastLimit ==
    [][(lastOp'.op = "history" /\ lastOp'.arg >= 0)
         => /\ Len(history') <= lastOp'.arg
            /\ \A j \in 1..Len(history') :
                  history'[j]
                     = message_queue[Len(message_queue) - Len(history') + j]]_vars

(***************************************************************************)
(* The connector's chain of records.  SHA-256 is taken to be free of       *)
(* collisions: a digest is the tuple of what was hashed.                   *)
(***************************************************************************)
\* Activity ids (two activities made in one instant share theirs) and texts.
ActivityIds == {"act1", "act2"}
ActivityTexts == {"hello", "bye"}

\* "0" * 64, the previous_hash of the first record.
GenesisHash == <<"0">>

\* sha256(json.dumps(message.to_dict())).hexdigest()
ContentHash(message) ==
    CASE message.content = "hello" -> "sha256:hello"
      [] message.content = "bye" -> "sha256:bye"
      [] OTHER -> "sha256:other"

\* BlockchainRecord.compute_hash: over message_id, timestamp, previous_hash
\* and content_hash, and not over the signature.
ComputeHash(record) ==
    <<record.message_id, record.timestamp, record.previous_hash,
      record.content_hash>>

PreviousHashMutant(records) == GenesisHash
\* add_to_blockchain: the previous hash a new record is given.
PreviousHash(records) ==
    IF records # <<>> THEN ComputeHash(records[Len(records)]) ELSE GenesisHash

\* verify_blockchain
VerifyChain(records) ==
    \A i \in 2..Len(records) :
        records[i].previous_hash = ComputeHash(records[i - 1])

\* add_to_blockchain(message)
AddToBlockchain(message) ==
    /\ Len(blockchain) < MaxChain
    /\ blockchain' =
          Append(blockchain,
                 [message_id |-> message.id,
                  timestamp |-> clock,
                  previous_hash |-> PreviousHash(blockchain),
                  content_hash |-> ContentHash(message),
                  signature |-> message.signature])
    /\ lastOp' = [op |-> "chain", id |-> Len(blockchain) + 1, arg |-> 0,
                  save |-> None, raised |-> FALSE, result |-> <<>>,
                  query |-> message.content, min |-> 0, fails |-> FALSE]
    /\ UNCHANGED <<services, store, node, verified, tampered>>

\* verify_blockchain()
VerifyBlockchain ==
    /\ verified' = {VerifyChain(blockchain)}
    /\ lastOp' = [op |-> "verify", id |-> 0, arg |-> 0, save |-> None,
                  raised |-> FALSE, result |-> <<>>, query |-> "", min |-> 0,
                  fails |-> FALSE]
    /\ UNCHANGED <<services, store, node, blockchain, tampered>>

\* A holder of the connector overwrites the content_hash of record i:
\* connector.blockchain[i].content_hash = "tampered".
Tamper(i) ==
    /\ i \in 1..Len(blockchain)
    /\ blockchain[i].content_hash # "tampered"
    /\ blockchain' = [blockchain EXCEPT ![i].content_hash = "tampered"]
    /\ tampered' = TRUE
    /\ lastOp' = [op |-> "tamper", id |-> i, arg |-> 0, save |-> None,
                  raised |-> FALSE, result |-> <<>>, query |-> "", min |-> 0,
                  fails |-> FALSE]
    /\ UNCHANGED <<services, store, node, verified>>

InitChain == InitWith({FALSE}, {FALSE})

NextChain ==
    \/ \E a \in ActivityIds, c \in ActivityTexts :
          AddToBlockchain([id |-> a, content |-> c, signature |-> ""])
    \/ VerifyBlockchain
    \/ \E i \in 1..MaxChain : Tamper(i)

SpecChain == InitChain /\ [][NextChain]_vars

\* C27: after add_to_blockchain calls only, the first record's previous_hash
\* is the 64 zeros, every later record's previous_hash is compute_hash of
\* the record before it, and a verify_blockchain call returns True.
C27_ChainOfAddsVerifies ==
    ~tampered
       => /\ blockchain # <<>> => blockchain[1].previous_hash = GenesisHash
          /\ \A i \in 2..Len(blockchain) :
                blockchain[i].previous_hash = ComputeHash(blockchain[i - 1])
          /\ lastOp.op = "verify" => verified = {TRUE}

\* verify_blockchain has returned True on a chain of three added records.
C27_Witness ==
    /\ ~tampered
    /\ Len(blockchain) = 3
    /\ lastOp.op = "verify"
    /\ verified = {TRUE}

\* C28, as claimed: on a chain of three records of which one that is not the
\* last has had its content_hash overwritten, verify_blockchain returns True.
C28_TamperedContentVerifies ==
    (/\ lastOp.op = "verify"
     /\ Len(blockchain) = 3
     /\ blockchain[3].content_hash # "tampered"
     /\ \E i \in 1..2 : blockchain[i].content_hash = "tampered")
        => verified = {TRUE}

(***************************************************************************)
(* The order of the steps of one add_memory call, under SpecConc.          *)
(***************************************************************************)
\* The save of call c is waiting for a thread or running on one.
SaveInFlight(c) ==
    \/ \E i \in 1..Len(queue) : queue[i].call = c /\ queue[i].fn = "save"
    \/ \E w \in Workers :
          /\ workers[w].call = c
          /\ workers[w].pc \in {"acquire", "write", "commit", "release"}

\* C29: within one add_memory call the embedding is generated before the
\* entry joins the live index, the entry is in the live index before its
\* save is queued or run, and the call returns only when the save has run to
\* its end, committed or failed.
C29_PerCallOrder ==
    \A c \in Calls :
        /\ Live(calls[c].id)
              => /\ calls[c].pc \in {"saving", "saved", "returned"}
                 /\ calls[c].embedding # NoEmbedding
                 /\ LiveEntry(calls[c].id).embedding = calls[c].embedding
        /\ SaveInFlight(c) => Live(calls[c].id) /\ calls[c].pc = "saving"
        /\ calls[c].pc = "returned"
              => /\ ~SaveInFlight(c)
                 /\ calls[c].save \in {"ok", "write_failed", "commit_failed"}

\* The embeddings of two calls are being generated at once, one on each
\* thread.
C29_Witness ==
    \E v, w \in Workers :
        /\ v # w
        /\ workers[v].pc = "embed"
        /\ workers[w].pc = "embed"
        /\ workers[v].call # workers[w].call

(***************************************************************************)
(* Retrieval while add_memory calls are under way: retrieve_memories reads *)
(* and touches the live index in one run of its coroutine, between the     *)
(* awaits of the add_memory coroutines.                                    *)
(***************************************************************************)
NextObserve ==
    \/ \E c \in Calls : CallAddMemory(c, "python", 5000)
    \/ \E w \in Workers : WorkerTake(w)
    \/ \E w \in Workers : WorkerEmbed(w, FALSE)
    \/ \E c \in Calls : ResumeConstruct(c)
    \/ \E w \in Workers : WorkerAcquire(w)
    \/ \E w \in Workers : WorkerWrite(w, FALSE)
    \/ \E w \in Workers : WorkerCommit(w, FALSE)
    \/ \E w \in Workers : WorkerRelease(w)
    \/ \E c \in Calls : ResumeReturn(c)
    \/ RetrieveMemories("python", 2, 0, FALSE)

SpecObserve == InitConc /\ [][NextObserve]_vars

\* The write of call c's entry to its file has been attempted.
WriteAttempted(c) ==
    \/ calls[c].pc \in {"saved", "returned"}
    \/ \E w \in Workers :
          workers[w].call = c /\ workers[w].pc \in {"commit", "release"}

\* C30, as claimed: a retrieve_memories call returns only entries whose
\* write to the ledger has been attempted.
C30_IndexedAfterLedgerWrite ==
    [][lastOp'.op = "retrieve"
          => \A j \in 1..Len(lastOp'.result) :
                \A c \in Calls :
                    calls[c].id = lastOp'.result[j] => WriteAttempted(c)]_vars

(***************************************************************************)
(* Ties, under SpecRetrieve.                                               *)
(***************************************************************************)
\* The place of entry id in a result, or 0.
PlaceIn(result, id) ==
    IF InSeq(id, result)
    THEN CHOOSE j \in 1..Len(result) : result[j] = id
    ELSE 0

\* C35: of two candidates of equal score, a retrieve_memories call returns
\* the one appended later only together with, and behind, the one appended
\* earlier.
C35_TiesByInsertionOrder ==
    [][lastOp'.op = "retrieve"
          => LET qe == QueryEmbedding(lastOp')
                 r == lastOp'.result
             IN  \A i, j \in 1..Len(memories) :
                    (/\ i < j
                     /\ PassesFilter(memories[i], lastOp'.min)
                     /\ PassesFilter(memories[j], lastOp'.min)
                     /\ Score(qe, memories[i]) = Score(qe, memories[j])
                     /\ InSeq(memories[j].id, r))
                       => /\ InSeq(memories[i].id, r)
                          /\ PlaceIn(r, memories[i].id)
                                < PlaceIn(r, memories[j].id)]_vars

\* A call with top_k = 1 on two entries of the same content and importance
\* has returned the one appended first.
C35_Witness ==
    /\ lastOp.op = "retrieve"
    /\ lastOp.arg = 1
    /\ Len(memories) = 2
    /\ memories[1].content = memories[2].content
    /\ memories[1].importance = memories[2].importance
    /\ memories[1].id < memories[2].id
    /\ lastOp.result = <<memories[1].id>>

(***************************************************************************)
(* The codec in the save: stores with and without compression, contents on *)
(* both sides of the threshold, saves that commit and saves whose commit   *)
(* raises after the file was written.                                      *)
(***************************************************************************)
InitCodec == InitWith({FALSE}, BOOLEAN)

NextCodec ==
    \/ AdvanceFine
    \/ \E t \in CodecContents, o \in {"ok", "commit_failed"} :
          AddMemory(t, 5000, FALSE, o)

SpecCodec == InitCodec /\ [][NextCodec]_vars

\* The record as it should be for entry m in a store with or without
\* compression.
RecordAsSpecified(data, m) ==
    IF compression_enabled /\ ContentLen(m.content) > 1024
    THEN /\ data.compressed = TRUE
         /\ data.content = Hex(CompressContent(m.content))
         /\ data.content # m.content
    ELSE /\ data.compressed = FALSE
         /\ data.content = m.content

\* C36: the record an add_memory call writes, and the one it commits, has
\* compressed = true and the hex of the compressed content exactly when
\* compression is enabled and the content is longer than 1024, and the
\* original content with compressed = false otherwise; the live entry keeps
\* the original content.
C36_CompressionExactlyWhenDue ==
    [][lastOp'.op = "add"
          => LET m == memories'[Len(memories')]
                 name == FileName(m.timestamp)
             IN  /\ m.id = lastOp'.id
                 /\ m.content \in CodecContents
                 /\ RecordAsSpecified(ledger'.files[name], m)
                 /\ lastOp'.save = "ok"
                       => RecordAsSpecified(
                             ledger'.commits[Len(ledger'.commits)].data, m)]_vars

\* A store with compression holds an entry of 1024 characters committed as
\* it is and one of 1025 characters committed compressed.
C36_Witness ==
    /\ compression_enabled
    /\ Len(memories) = 2
    /\ Len(ledger.commits) = 2
    /\ memories[1].content = "edge" /\ memories[2].content = "over"
    /\ ledger.commits[1].data.compressed = FALSE
    /\ ledger.commits[2].data.compressed = TRUE

\* C37, as claimed: every committed record is the entry as it was appended,
\* with access_count 0 and the clamped importance given to add_memory,
\* whatever retrieval ran while its commit was pending.
C37_RecordIsEntryAsAppended ==
    \A i \in 1..Len(ledger.commits) :
        /\ ledger.commits[i].data.access_count = 0
        /\ \E c \in Calls :
              ledger.commits[i].data.importance = Clamp(calls[c].importance)

(***************************************************************************)
(* Progress of add_memory calls.  The pool's threads are scheduled by the  *)
(* operating system and the event loop resumes a coroutine whose future    *)
(* has completed: a step that stays possible is taken.                     *)
(***************************************************************************)
NextProgress ==
    \/ \E c \in Calls : CallAddMemory(c, "python", 5000)
    \/ \E w \in Workers : WorkerTake(w)
    \/ \E w \in Workers : WorkerEmbed(w, FALSE)
    \/ \E c \in Calls : ResumeConstruct(c)
    \/ \E w \in Workers : WorkerAcquire(w)
    \/ \E w \in Workers, r \in BOOLEAN : WorkerWrite(w, r)
    \/ \E w \in Workers, r \in BOOLEAN : WorkerCommit(w, r)
    \/ \E w \in Workers : WorkerRelease(w)
    \/ \E c \in Calls : ResumeReturn(c)

SpecConcFair ==
    /\ InitConc
    /\ [][NextProgress]_vars
    /\ \A w \in Workers :
          /\ WF_vars(WorkerTake(w))
          /\ WF_vars(WorkerEmbed(w, FALSE))
          /\ WF_vars(WorkerAcquire(w))
          /\ WF_vars(\E r \in BOOLEAN : WorkerWrite(w, r))
          /\ WF_vars(\E r \in BOOLEAN : WorkerCommit(w, r))
          /\ WF_vars(WorkerRelease(w))
    /\ \A c \in Calls :
          /\ WF_vars(ResumeConstruct(c))
          /\ WF_vars(ResumeReturn(c))

\* C33: every add_memory call that was made returns, whatever the writes
\* and commits of its own and of earlier saves did.
C33_EveryAddReturns ==
    \A c \in Calls : (calls[c].pc # "idle") ~> (calls[c].pc = "returned")

\* Both calls have returned, one after a save that failed and one after a
\* save that committed and so took the lock the failed save had held.
C33_Witness ==
    \E c, d \in Calls :
        /\ calls[c].pc = "returned" /\ calls[c].save = "commit_failed"
        /\ calls[d].pc = "returned" /\ calls[d].save = "ok"
        /\ calls[c].id < calls[d].id
        /\ git_lock = 0

(***************************************************************************)
(* What each operation changes: a store under every operation, direct      *)
(* cluster_memories calls included, as the clock moves on by days.         *)
(***************************************************************************)
\* cluster_memories(), called directly.
ClusterMemories ==
    /\ lastOp' = [op |-> "cluster", id |-> 0, arg |-> 0, save |-> None,
                  raised |-> ClusterRaises(memories), result |-> <<>>,
                  query |-> "", min |-> 0, fails |-> FALSE]
    /\ UNCHANGED <<rest, config, memories, ledger, clock, nextId, appended,
                   addsReturned, addsCommitted, cyclesRun, pool>>

InitFrame == InitWith({FALSE}, {FALSE})

NextFrame ==
    \/ AdvancePeriod
    \/ \E x \in RankedImportances : AddMemory("python", x, FALSE, "ok")
    \/ RetrieveMemories("python", 1, 0, FALSE)
    \/ ConsolidateMemories
    \/ GetStats
    \/ ClusterMemories

SpecFrame == InitFrame /\ [][NextFrame]_vars

\* Entries m and n differ at most in the given fields.
SameBut(m, n, fields) ==
    \A f \in (DOMAIN m) \ fields : m[f] = n[f]

\* C34: retrieve_memories changes only access_count and last_accessed, and
\* only of the entries it returns, and keeps the index's membership;
\* consolidate_memories changes only importance and membership; add_memory
\* changes no entry that was there; get_stats and cluster_memories change
\* nothing.
C34_Frame ==
    [][/\ lastOp'.op = "retrieve"
          => /\ Len(memories') = Len(memories)
             /\ \A i \in 1..Len(memories) :
                   IF InSeq(memories[i].id, lastOp'.result)
                   THEN SameBut(memories'[i], memories[i],
                                {"access_count", "last_accessed"})
                   ELSE memories'[i] = memories[i]
       /\ lastOp'.op = "consolidate"
          => /\ \A j \in 1..Len(memories') :
                   \E i \in 1..Len(memories) :
                       /\ memories[i].id = memories'[j].id
                       /\ SameBut(memories'[j], memories[i], {"importance"})
             /\ \A j, k \in 1..Len(memories') :
                   j < k => memories'[j].id < memories'[k].id
       /\ (lastOp'.op = "add" /\ nextId' # nextId)
          => /\ Len(memories') = Len(memories) + 1
             /\ SubSeq(memories', 1, Len(memories)) = memories
       /\ lastOp'.op \in {"stats", "cluster"} => memories' = memories]_vars

\* A consolidation three days after two appends has pruned one entry and
\* lowered the importance of the other, which a retrieval had touched.
C34_Witness ==
    /\ lastOp.op = "consolidate"
    /\ nextId = 2
    /\ Len(memories) = 1
    /\ memories[1].importance < appended[memories[1].id].importance
    /\ memories[1].access_count = 1

(***************************************************************************)
(* The event loop statement by statement: the decay loop of a cycle one    *)
(* entry at a time, and retrieve_memories with its await of the query      *)
(* embedding, next to appends, a timer task, a direct caller of            *)
(* consolidate_memories and stop_background_tasks.                         *)
(***************************************************************************)
DecayRaisesMutant(m, now) == m.importance < 1000
\* Whether 'memory.importance *= np.exp(-age_days / 30)' raises on entry m:
\* importance and timestamp are floats, and numpy answers an overflow with
\* inf and a warning.
DecayRaises(m, now) == FALSE

ObservedIndexMutant(seen, current) == seen
\* The index retrieve_memories works on after its await: self.memories is
\* read again at 294 and 303, whatever it was when the call was made.
ObservedIndex(seen, current) == current

\* Coroutine a may take its next step: it has the loop, or it was suspended
\* at point and the loop is free.
MayStep(a, point) == running = {a} \/ (Suspends(point) /\ running = {})

\* consolidate_memories: 'if not self.memories: return', else
\* current_time = time.time() and the decay loop is entered.
CycleBegin(a) ==
    /\ running = {a}
    /\ tasks[a].pc = "consolidate"
    /\ IF memories = <<>>
       THEN /\ EndOfCycle(a, FALSE)
            /\ UNCHANGED pass
       ELSE /\ tasks' = [tasks EXCEPT ![a].pc = "decay"]
            /\ pass' = [pass EXCEPT ![a] = [next |-> 1, found |-> Ids(memories),
                                            done |-> {}]]
            /\ running' = IF Suspends("decay") THEN {} ELSE {a}
            /\ UNCHANGED lastOp
    /\ UNCHANGED <<services, reader, node, chain, stats, config, memories, ledger, clock,
                   nextId, appended, addsReturned, addsCommitted, cyclesRun,
                   pool, consolidation_task, stopped>>

\* One turn of 'for memory in self.memories', or the end of the loop; an
\* exception leaves consolidate_memories.
CycleDecayStep(a) ==
    LET i == pass[a].next
    IN  /\ MayStep(a, "decay")
        /\ tasks[a].pc = "decay"
        /\ IF i > Len(memories)
           THEN /\ tasks' = [tasks EXCEPT ![a].pc = "prune"]
                /\ running' = {a}
                /\ UNCHANGED <<memories, appended, pass, lastOp>>
           ELSE IF DecayRaises(memories[i], clock)
           THEN /\ EndOfCycle(a, TRUE)
                /\ UNCHANGED <<memories, appended, pass>>
           ELSE /\ memories' = [memories EXCEPT ![i] = Decay(@, clock)]
                /\ appended' = NoteCycle(appended, <<memories[i]>>, clock)
                /\ pass' = [pass EXCEPT ![a].next = i + 1,
                                        ![a].done = @ \cup {memories[i].id}]
                /\ running' = IF Suspends("decay") THEN {} ELSE {a}
                /\ UNCHANGED <<tasks, lastOp>>
        /\ UNCHANGED <<services, reader, node, chain, stats, config, ledger, clock,
                       nextId, addsReturned, addsCommitted, cyclesRun, pool,
                       consolidation_task, stopped>>

\* retrieve_memories(query, top_k, min_importance) up to its await: [] at
\* once on an empty index, else the query embedding goes to the executor.
CallRetrieve ==
    /\ running = {}
    /\ reader.pc = "idle"
    /\ IF memories = <<>>
       THEN /\ lastOp' = [op |-> "retrieve", id |-> 0, arg |-> 2,
                          save |-> None, raised |-> FALSE, result |-> <<>>,
                          query |-> "pizza", min |-> 0, fails |-> FALSE]
            /\ UNCHANGED reader
       ELSE /\ reader' = [pc |-> "embedding", seen |-> memories]
            /\ UNCHANGED lastOp
    /\ UNCHANGED <<services, pass, timers, node, chain, stats, config, memories, ledger,
                   clock, nextId, appended, addsReturned, addsCommitted,
                   cyclesRun, pool>>

\* retrieve_memories from its await to its return, in one run of the loop.
ResumeRetrieve ==
    LET index == ObservedIndex(reader.seen, memories)
        qe == GenerateEmbedding(embedding_model, FALSE, "pizza")
        top == TopMemories(index, qe, 2, 0)
        raises == index # <<>> /\ SimilarityRaises(index, qe)
    IN  /\ running = {}
        /\ reader.pc = "embedding"
        /\ \A i \in 1..Len(memories) : memories[i].access_count < MaxAccess
        /\ reader' = [reader EXCEPT !.pc = "idle"]
        /\ memories' = IF index = <<>> \/ raises THEN memories
                       ELSE Touch(memories, top, clock)
        /\ lastOp' = [op |-> "retrieve", id |-> 0, arg |-> 2, save |-> None,
                      raised |-> raises,
                      result |-> IF index = <<>> \/ raises THEN <<>>
                                 ELSE [j \in 1..Len(top) |-> index[top[j]].id],
                      query |-> "pizza", min |-> 0, fails |-> FALSE]
        /\ appended' = NoteHits(appended, lastOp'.result)
        /\ UNCHANGED <<services, pass, timers, node, chain, stats, config, ledger, clock,
                       nextId, addsReturned, addsCommitted, cyclesRun, pool>>

InitLoop == InitWith({TRUE}, {FALSE})

NextLoop ==
    \/ consolidation_task = 0 /\ StartBackgroundTasks
    \/ StopBackgroundTasks
    \/ \E t \in Tasks : TimerFires(t)
    \/ CallConsolidate
    \/ \E a \in Actors : CycleBegin(a)
    \/ \E a \in Actors : CycleDecayStep(a)
    \/ \E a \in Actors : CyclePrune(a)
    \/ \E a \in Actors : CycleCluster(a)
    \/ CallRetrieve
    \/ ResumeRetrieve
    \/ \E e \in BOOLEAN : running = {} /\ AddMemory("pizza", 5000, e, "ok")
    \/ running = {} /\ AddMemory("pizza", 100, FALSE, "ok")

SpecLoop == InitLoop /\ [][NextLoop]_vars

(***************************************************************************)
(* Properties of the event loop, under SpecLoop.                           *)
(***************************************************************************)
\* Coroutine a is in its decay loop with some entries decayed and others
\* not yet.
PartlyDecayed(a) ==
    /\ tasks[a].pc = "decay"
    /\ pass[a].done # {}
    /\ pass[a].done # pass[a].found

\* C31: while a coroutine is between the start of its decay loop and the
\* end of its prune, every step that appends to the index, reads it for a
\* retrieval, updates access statistics, or decays or prunes is a step of
\* that coroutine.
C31_MutationsSerialized ==
    [][\A a \in Actors :
          (/\ tasks[a].pc \in {"decay", "prune"}
           /\ memories' # memories \/ lastOp' # lastOp \/ reader' # reader)
             => pass'[a] # pass[a] \/ tasks'[a] # tasks[a]]_vars

\* The timer's cycle has decayed one of two entries while a retrieve_memories
\* call is waiting for its query embedding.
C31_Witness ==
    \E t \in Tasks :
        /\ PartlyDecayed(t)
        /\ Len(memories) = 2
        /\ reader.pc = "embedding"

\* C32: outside its decay loop, and so whenever its cycle has failed or its
\* task was cancelled, a coroutine's last cycle has decayed either none of
\* the entries it found or every one of them.
C32_DecayAllOrNothing ==
    \A a \in Actors :
        tasks[a].pc # "decay"
           => pass[a].done = {} \/ pass[a].done = pass[a].found

\* The timer task was cancelled after a cycle of it had decayed both entries
\* and then failed in clustering.
C32_Witness ==
    \E t \in Tasks :
        /\ tasks[t].pc = "cancelled"
        /\ tasks[t].failed
        /\ Cardinality(pass[t].found) = 2
        /\ pass[t].done = pass[t].found

\* C38: a retrieve_memories call that returns after its await returns only
\* entries that are in the live index as it returns, and adds to the access
\* statistics of exactly those.
C38_NoPrunedEntryReturned ==
    [][(reader.pc = "embedding" /\ reader'.pc = "idle")
          => /\ \A j \in 1..Len(lastOp'.result) :
                   lastOp'.result[j] \in Ids(memories')
             /\ Len(memories') = Len(memories)
             /\ \A i \in 1..Len(memories) :
                   memories'[i].access_count =
                      memories[i].access_count
                        + (IF InSeq(memories[i].id, lastOp'.result)
                           THEN 1 ELSE 0)]_vars

\* A call made on an index of two entries has returned the one entry left
\* after a cycle pruned the other during the call's await.
C38_Witness ==
    /\ lastOp.op = "retrieve"
    /\ reader.pc = "idle"
    /\ \A a \in Actors : tasks[a].pc \notin {"consolidate", "decay", "prune", "cluster"}
    /\ Len(reader.seen) = 2
    /\ Len(memories) = 1
    /\ lastOp.result = <<memories[1].id>>
    /\ memories[1].access_count = 1

(***************************************************************************)
(* Agents: process_message with trigger_agents, the replies of the         *)
(* registered agents, and other messages arriving in between.  Redis and   *)
(* the memory store work.                                                  *)
(***************************************************************************)
AgentIds == {"bot1", "bot2"}
\* Senders: a human participant and a registered agent.
Senders == {"user_1", "bot1"}
\* What agent.generate_response does: it returns a reply, it returns an
\* apology (OllamaAgent catches what the model raises), or it raises.
Generations == {"reply", "apology", "raises"}

ReplyTriggersMutant == TRUE
\* The trigger_agents argument of the process_message call that sends an
\* agent's reply.
ReplyTriggers == FALSE

\* 'for agent_id, agent in self.agents.items()' for a message from sender:
\* the turns to come, none when agents are not triggered.
Turns(sender, trigger_agents) ==
    IF trigger_agents
    THEN [j \in 1..Len(agents) |-> [agent |-> agents[j], to |-> sender]]
    ELSE <<>>

\* create_ai_agent(agent_id, name)
CreateAiAgent(id) ==
    /\ dispatch.pc = "idle"
    /\ ~InSeq(id, agents)
    /\ agents' = Append(agents, id)
    /\ UNCHANGED <<store, node, chain, dispatch, zset, checks, lastOp>>

\* await self.memory_manager.add_memory(content, importance=1.0, source=
\* sender_id), run to its return.
StoreInMemory(content, source) ==
    LET id == nextId + 1
        embedding == GenerateEmbedding(embedding_model, FALSE, content)
        memory == NewEntry(id, content, 1000, embedding, source, clock)
    IN  /\ nextId' = id
        /\ memories' = Append(memories, memory)
        /\ ledger' = SaveToGitSync(ledger, compression_enabled, memory, "ok")
        /\ appended' = Append(appended, [importance |-> memory.importance,
                                         cycles |-> 0, cycleAt |-> 0,
                                         hits |-> 0])
        /\ addsReturned' = addsReturned + 1
        /\ addsCommitted' = addsCommitted + 1
        /\ UNCHANGED <<config, clock, cyclesRun, pool, timers, stats, loop>>

\* process_message(sender_id, content) with its defaults, up to the first
\* await inside _process_with_agents: the message is made, queued, stored,
\* published, and the loop over the agents begins.
TriggerAgents(sender, content) ==
    /\ dispatch.pc = "idle"
    /\ Len(message_queue) + 1 + Len(agents) <= MaxMessages
    /\ message_queue' =
          DequeAppend(message_queue,
                      [sender |-> sender, content |-> content, encrypted |-> FALSE])
    /\ StoreInMemory(content, sender)
    /\ dispatch' = [pc |-> "agents", sender |-> sender,
                    todo |-> Turns(sender, TRUE), sent |-> <<sender>>,
                    succeeded |-> <<>>]
    /\ UNCHANGED <<chain, history, agents, zset, checks, lastOp>>

\* One turn of the loop over the agents: the sender of the message is
\* skipped; otherwise generate_response is awaited and its result sent with
\* process_message(agent_id, response, trigger_agents=False); what is raised
\* is logged.
AgentTurn(generation) ==
    LET turn == Head(dispatch.todo)
    IN  /\ dispatch.pc = "agents"
        /\ dispatch.todo # <<>>
        /\ IF turn.to = turn.agent \/ generation = "raises"
           THEN /\ dispatch' = [dispatch EXCEPT !.todo = Tail(@)]
                /\ UNCHANGED <<store, message_queue>>
           ELSE /\ Len(message_queue) < MaxMessages
                /\ message_queue' =
                      DequeAppend(message_queue,
                                  [sender |-> turn.agent, content |-> generation,
                                   encrypted |-> FALSE])
                /\ StoreInMemory(generation, turn.agent)
                /\ dispatch' = [dispatch EXCEPT
                      !.todo = Turns(turn.agent, ReplyTriggers) \o Tail(@),
                      !.sent = Append(@, turn.agent),
                      !.succeeded = IF turn.to = dispatch.sender
                                    THEN Append(@, turn.agent) ELSE @]
        /\ UNCHANGED <<chain, history, agents, zset, checks, lastOp>>

\* The loop over the agents is over: process_message returns its message.
TriggerReturn ==
    /\ dispatch.pc = "agents"
    /\ dispatch.todo = <<>>
    /\ dispatch' = [dispatch EXCEPT !.pc = "idle"]
    /\ lastOp' = [op |-> "message", id |-> 0, arg |-> Len(dispatch.sent),
                  save |-> None, raised |-> FALSE, result |-> <<>>,
                  query |-> dispatch.sender, min |-> 0, fails |-> FALSE]
    /\ UNCHANGED <<store, node, chain, agents, zset, checks>>

InitAgents == InitWith({FALSE}, {FALSE})

NextAgents ==
    \/ \E id \in AgentIds : CreateAiAgent(id)
    \/ \E s \in Senders : TriggerAgents(s, "hello")
    \/ \E g \in Generations : AgentTurn(g)
    \/ TriggerReturn
    \/ ProcessMessage("user_1", "how")

SpecAgents == InitAgents /\ [][NextAgents]_vars

NoRepeat(seq) == \A i, j \in 1..Len(seq) : seq[i] = seq[j] => i = j

\* C39: a process_message call that triggers agents ends after one turn per
\* registered agent, and has then queued its own message followed by one
\* reply from each agent, other than the sender, whose generate_response
\* returned, and nothing else: no reply to a reply, and no reply of an agent
\* to its own message.
C39_RepliesTriggerNoReplies ==
    [][dispatch.pc = "agents"
          => /\ dispatch'.todo # dispatch.todo
                   => Len(dispatch'.todo) = Len(dispatch.todo) - 1
             /\ dispatch'.pc = "idle"
                   => /\ dispatch.sent = <<dispatch.sender>> \o dispatch.succeeded
                      /\ NoRepeat(dispatch.succeeded)
                      /\ ~InSeq(dispatch.sender, dispatch.succeeded)
                      /\ \A j \in 1..Len(dispatch.succeeded) :
                            InSeq(dispatch.succeeded[j], agents)]_vars

\* A call for a human's message with two agents registered has returned
\* after queueing the message and one reply, the other agent's generation
\* having raised.
C39_Witness ==
    /\ lastOp.op = "message"
    /\ dispatch.pc = "idle"
    /\ dispatch.sender = "user_1"
    /\ Len(agents) = 2
    /\ Len(dispatch.succeeded) = 1
    /\ Len(message_queue) = 2

(***************************************************************************)
(* The rate limiter: check_rate_limit coroutines for one key, each Redis   *)
(* command an await at which the others may run, on a Redis that works.    *)
(* The clock moves by half-milliseconds, so every call falls in one window *)
(* and the key's expiry never comes.                                       *)
(***************************************************************************)
\* The limit and the window (one second, in clock units) the calls are made
\* with.
RateLimit == 1
RateWindow == UnitsPerSecond

\* zremrangebyscore(key, 0, window_start): the members scored from 0 to
\* window_start go.
ZRemRangeByScore(set, lo, hi) == {s \in set : ~(lo <= s /\ s <= hi)}

\* zadd(key, {str(now): now}): one member per distinct now.
ZAdd(set, now) == set \cup {now}

\* check_rate_limit(key, limit, window) to its first await: the arguments
\* are positive, now = time.time().
CallCheck(k) ==
    /\ checks[k].pc = "idle"
    /\ checks' = [checks EXCEPT ![k] = [@ EXCEPT !.pc = "trim", !.now = clock]]
    /\ UNCHANGED <<store, node, chain, agents, dispatch, zset, lastOp>>

\* await self.redis.zremrangebyscore(key, 0, window_start)
CheckTrim(k) ==
    /\ checks[k].pc = "trim"
    /\ zset' = ZRemRangeByScore(zset, 0, checks[k].now - RateWindow)
    /\ checks' = [checks EXCEPT ![k].pc = "count"]
    /\ UNCHANGED <<store, node, chain, agents, dispatch, lastOp>>

\* current_count = await self.redis.zcard(key), and 'return False, 0' when
\* the count has reached the limit.
CheckCount(k) ==
    /\ checks[k].pc = "count"
    /\ checks' = [checks EXCEPT ![k] =
          [@ EXCEPT !.count = Cardinality(zset),
                    !.pc = IF Cardinality(zset) < RateLimit
                           THEN "add" ELSE "done"]]
    /\ UNCHANGED <<store, node, chain, agents, dispatch, zset, lastOp>>

\* await self.redis.zadd(key, {str(now): now})
CheckAdd(k) ==
    /\ checks[k].pc = "add"
    /\ zset' = ZAdd(zset, checks[k].now)
    /\ checks' = [checks EXCEPT ![k].pc = "expire"]
    /\ UNCHANGED <<store, node, chain, agents, dispatch, lastOp>>

\* await self.redis.expire(key, window) and 'return True, ...'
CheckExpire(k) ==
    /\ checks[k].pc = "expire"
    /\ checks' = [checks EXCEPT ![k] = [@ EXCEPT !.pc = "done",
                                                 !.allowed = TRUE]]
    /\ UNCHANGED <<store, node, chain, agents, dispatch, zset, lastOp>>

InitLimit == InitWith({FALSE}, {FALSE})

NextLimit ==
    \/ AdvanceFine
    \/ \E k \in Checkers : CallCheck(k)
    \/ \E k \in Checkers : CheckTrim(k)
    \/ \E k \in Checkers : CheckCount(k)
    \/ \E k \in Checkers : CheckAdd(k)
    \/ \E k \in Checkers : CheckExpire(k)

SpecLimit == InitLimit /\ [][NextLimit]_vars

\* C40, as claimed: of the check_rate_limit calls for one key made within
\* one window, at most limit are answered allowed, however they interleave.
C40_AtMostLimitAllowed ==
    Cardinality({k \in Checkers : checks[k].allowed}) <= RateLimit
====
